---- MODULE Spec2Model ----
(***************************************************************************)
(* Model of src/lambda/cost-report/lambda_handler.py: one invocation of    *)
(* main(event, context), the daily AWS cost and forecast report.           *)
(*                                                                         *)
(* Units.  Python floats are modelled in fixed point: a USD amount is an   *)
(* integer number of thousandths of a dollar, an exchange rate an integer  *)
(* number of tenths of a yen per dollar.  Calendar dates are records       *)
(* [year, month, day]; the strings strftime produces are tuples of         *)
(* characters (digits as numbers, the separator as "-").                   *)
(***************************************************************************)
EXTENDS Integers, Sequences, FiniteSets, TLC

\* ------------------------------------------------------------------ bounds
\* The years "today" is drawn from in the pipeline: 2024 .. 2024 + YearSpan.
YearSpan == 1
\* Longest list of service groups the billing API returns (ranking runs).
MaxGroups == 7
\* Largest amount of one service group (ranking runs).
MaxAmount == 1
\* Longest "data" list of the FX ticker payload.
MaxFxEntries == 1
\* Largest magnitude of the small amounts fed to the currency conversion.
MaxConvAmount == 40

\* ------------------------------------------------------ program constants
DEFAULT_EXCHANGE_RATE == 1500          \* 150.0 yen per dollar, in tenths
TOP_N == 5                             \* the slice [:5]

\* ---------------------------------------------------- calendar arithmetic
\* calendar.isleap, as used by calendar.monthrange.
IsLeap(y) == (y % 4 = 0 /\ y % 100 # 0) \/ y % 400 = 0

\* calendar.monthrange(year, month)[1]: the number of days of the month.
Monthrange(y, m) ==
    IF m = 2 THEN (IF IsLeap(y) THEN 29 ELSE 28)
    ELSE IF m \in {4, 6, 9, 11} THEN 30 ELSE 31

\* date.replace(day=n).
ReplaceDay(d, n) == [d EXCEPT !.day = n]

\* date - datetime.timedelta(days=1).
MinusOneDay(d) ==
    IF d.day > 1 THEN [d EXCEPT !.day = d.day - 1]
    ELSE IF d.month > 1
         THEN [year |-> d.year, month |-> d.month - 1,
               day |-> Monthrange(d.year, d.month - 1)]
         ELSE [year |-> d.year - 1, month |-> 12, day |-> 31]

\* date + datetime.timedelta(days=1).
PlusOneDay(d) ==
    IF d.day < Monthrange(d.year, d.month) THEN [d EXCEPT !.day = d.day + 1]
    ELSE IF d.month < 12
         THEN [year |-> d.year, month |-> d.month + 1, day |-> 1]
         ELSE [year |-> d.year + 1, month |-> 1, day |-> 1]

\* date.strftime("%Y-%m-%d"): ten characters, zero padded.
Strftime(d) ==
    << d.year \div 1000, (d.year \div 100) % 10, (d.year \div 10) % 10,
       d.year % 10, "-", d.month \div 10, d.month % 10, "-",
       d.day \div 10, d.day % 10 >>

\* Every date of a set of years.
DatesOf(years) ==
    { dt \in [year : years, month : 1..12, day : 1..31] :
        dt.day <= Monthrange(dt.year, dt.month) }

\* The dates the pipeline runs are started on.
Years == 2024..(2024 + YearSpan)
RunDates == DatesOf(Years)
\* The dates the window computation alone is run on: also century years.
WideDates == DatesOf(Years \cup {1900, 2000, 2023, 2100})

\* ------------------------------------------------------------- get_dates
\* The start_date of get_dates: the two branches of "if today.day == 1".
StartDateNoFirstDayBranch(today_) == ReplaceDay(today_, 1)
StartDateAlwaysPrevMonth(today_) ==
    ReplaceDay(MinusOneDay(ReplaceDay(today_, 1)), 1)
StartDate(today_) ==
    IF today_.day = 1
    THEN ReplaceDay(MinusOneDay(ReplaceDay(today_, 1)), 1)
    ELSE ReplaceDay(today_, 1)

\* start_of_next_month of get_dates.
StartOfNextMonthNoPlusOne(today_) ==
    ReplaceDay(today_, Monthrange(today_.year, today_.month))
StartOfNextMonth(today_) ==
    PlusOneDay(ReplaceDay(today_, Monthrange(today_.year, today_.month)))

\* The dictionary get_dates returns.
GetDatesResult(today_) ==
    [ today               |-> Strftime(today_),
      yesterday           |-> Strftime(MinusOneDay(today_)),
      start_of_next_month |-> Strftime(StartOfNextMonth(today_)),
      start_date          |-> Strftime(StartDate(today_)),
      is_first_day        |-> (today_.day = 1) ]

\* ---------------------------------------------------- convert_usd_to_jpy
\* int(x) of a Python float x = num / den (den > 0): the fraction is dropped.
PyIntFloor(num, den) == num \div den
PyInt(num, den) ==
    IF num >= 0 THEN num \div den ELSE -((-num) \div den)

\* convert_usd_to_jpy(rate, amount) = int(rate * amount); rate in tenths of
\* a yen and amount in thousandths of a dollar make the product a number of
\* ten-thousandths of a yen.
ConvertUsdToJpy(rate, amount) == PyInt(rate * amount, 10000)

\* ---------------------------------------------- get_cost_data: the ranking
\* The service names of the groups; "Tax" is the key the code filters on.
ServiceNames ==
    << "AmazonEC2", "AmazonS3", "AmazonRDS", "AWSLambda", "AmazonVPC",
       "AmazonRoute53", "AmazonSNS", "AmazonSQS", "AWSKMS", "AmazonECR" >>

\* One group of the grouped response: Keys and the UnblendedCost amount.
CostItem(key, amount) == [Keys |-> <<key>>, Amount |-> amount]

\* if not include_tax: costs = [c for c in costs if c.get("Keys")[0] != "Tax"]
FilterTax(costs, include_tax_) ==
    IF ~include_tax_
    THEN SelectSeq(costs, LAMBDA c : c.Keys[1] # "Tax")
    ELSE costs

\* sorted(costs, key=amount, reverse=True): descending and stable, so an
\* item goes behind every item whose amount is greater than or equal to its.
RECURSIVE InsertDescUnstable(_, _)
InsertDescUnstable(sorted, x) ==
    IF sorted = <<>> THEN <<x>>
    ELSE IF Head(sorted).Amount > x.Amount
         THEN <<Head(sorted)>> \o InsertDescUnstable(Tail(sorted), x)
         ELSE <<x>> \o sorted
RECURSIVE InsertDescRec(_, _)
InsertDescRec(sorted, x) ==
    IF sorted = <<>> THEN <<x>>
    ELSE IF Head(sorted).Amount >= x.Amount
         THEN <<Head(sorted)>> \o InsertDescRec(Tail(sorted), x)
         ELSE <<x>> \o sorted
InsertDesc(sorted, x) == InsertDescRec(sorted, x)

RECURSIVE SortedReverseFrom(_, _, _)
SortedReverseFrom(costs, i, acc) ==
    IF i > Len(costs) THEN acc
    ELSE SortedReverseFrom(costs, i + 1, InsertDesc(acc, costs[i]))
SortedReverse(costs) == SortedReverseFrom(costs, 1, <<>>)

\* The slice [:5].
FirstN(s, n) == SubSeq(s, 1, IF Len(s) < n THEN Len(s) ELSE n)

\* top5_costs of get_cost_data.
Top5Costs(costs, include_tax_) ==
    FirstN(SortedReverse(FilterTax(costs, include_tax_)), TOP_N)

\* ------------------------------------------------------ get_exchange_rate
\* What requests.get returns: the transport outcome, the HTTP status, the
\* shape of the body, and for a JSON object its "status" and "data" members.
\* An entry of "data" is a record (with "symbol" and "ask") or a scalar.
FxEntries ==
    { [kind |-> "scalar", symbol |-> "", ask |-> "missing", value |-> 0],
      [kind |-> "record", symbol |-> "EUR_JPY", ask |-> "number", value |-> 1620],
      [kind |-> "record", symbol |-> "USD_JPY", ask |-> "number", value |-> 1450],
      [kind |-> "record", symbol |-> "USD_JPY", ask |-> "missing", value |-> 0],
      [kind |-> "record", symbol |-> "USD_JPY", ask |-> "text", value |-> 0] }

FxEntryLists ==
    UNION { [1..n -> FxEntries] : n \in 0..MaxFxEntries }

FxObject(status, data, entries) ==
    [transport |-> "ok", status_code |-> 200, json |-> "object",
     status |-> status, data |-> data, entries |-> entries]

FxNonObject(transport, status_code, json) ==
    [transport |-> transport, status_code |-> status_code, json |-> json,
     status |-> 0, data |-> "missing", entries |-> <<>>]

FxResponses ==
    { FxNonObject("error", 0, "none"),       \* connection failure
      FxNonObject("ok", 500, "none"),        \* HTTP 500
      FxNonObject("ok", 200, "invalid"),     \* the body is not JSON
      FxNonObject("ok", 200, "array"),       \* the body is a JSON array
      FxNonObject("ok", 200, "null") }       \* the body is JSON null
    \cup { FxObject(st, "list", es) : st \in {0, 1}, es \in FxEntryLists }
    \cup { FxObject(st, dt, <<>>) : st \in {0, 1}, dt \in {"missing", "null"} }

\* next((x for x in data.get("data", []) if x.get("symbol") == "USD_JPY"), None):
\* the entries are visited in order up to the first match; x.get on an entry
\* that is no record raises AttributeError.
RECURSIVE FindUsdJpy(_)
FindUsdJpy(entries) ==
    IF entries = <<>> THEN [found |-> "none"]
    ELSE IF Head(entries).kind # "record" THEN [found |-> "AttributeError"]
    ELSE IF Head(entries).symbol = "USD_JPY"
         THEN [found |-> "entry", entry |-> Head(entries)]
         ELSE FindUsdJpy(Tail(entries))

\* The exception classes "except (requests.RequestException, ValueError,
\* TypeError)" of get_exchange_rate catches.
FxCaught == {"RequestException", "ValueError", "TypeError"}

\* The body of the try block: the rate it returns or the exception it raises.
FxTry(r) ==
    IF r.transport # "ok" THEN [raises |-> "RequestException", rate |-> 0]
    ELSE IF r.status_code >= 400 THEN [raises |-> "RequestException", rate |-> 0]
    ELSE IF r.json \in {"invalid", "none"} THEN [raises |-> "ValueError", rate |-> 0]
    ELSE IF r.json # "object" THEN [raises |-> "AttributeError", rate |-> 0]
    ELSE IF r.status # 0 THEN [raises |-> "ValueError", rate |-> 0]
    ELSE IF r.data = "null" THEN [raises |-> "TypeError", rate |-> 0]
    ELSE LET f == FindUsdJpy(IF r.data = "missing" THEN <<>> ELSE r.entries)
         IN  IF f.found = "AttributeError"
               THEN [raises |-> "AttributeError", rate |-> 0]
             ELSE IF f.found = "none"
               THEN [raises |-> "no", rate |-> DEFAULT_EXCHANGE_RATE]
             ELSE IF f.entry.ask = "missing"
               THEN [raises |-> "TypeError", rate |-> 0]
             ELSE IF f.entry.ask = "text"
               THEN [raises |-> "ValueError", rate |-> 0]
             ELSE [raises |-> "no", rate |-> f.entry.value]

\* get_exchange_rate: a caught exception is logged and replaced by the
\* default rate, any other exception leaves the function.
GetExchangeRate(r) ==
    LET t == FxTry(r)
    IN  IF t.raises = "no"
          THEN [raises |-> "no", rate |-> t.rate, logged |-> {}]
        ELSE IF t.raises \in FxCaught
          THEN [raises |-> "no", rate |-> DEFAULT_EXCHANGE_RATE,
                logged |-> {"get_exchange_rate"}]
        ELSE [raises |-> t.raises, rate |-> 0, logged |-> {}]

\* -------------------------------------------------------------- main: state
VARIABLES
    pc,                 \* the step of main that runs next
    outcome,            \* "running", "completed", "aborted" or "propagated"
    error,              \* the exception main's except clause received
    today,              \* datetime.date.today()
    include_tax,        \* event.get("include_tax", False)
    webhook_set,        \* whether SLACK_WEBHOOK_URL is set
    dates,              \* the dictionary get_dates returned
    account_alias,      \* get_account_info()[1]
    costs,              \* the Groups of the grouped response (get_cost_data)
    top5_costs,         \* get_cost_data()[1]
    total_cost_usd,     \* get_cost_data()[0]
    fx_error,           \* the exception raised inside get_exchange_rate's try
    exchange_rate,      \* what get_exchange_rate returned
    total_cost_jpy,
    forecast_cost_usd,
    forecast_cost_jpy,
    calls,              \* the external calls issued so far, in order
    logged,             \* the functions whose logger.error has run
    posts,              \* the JSON bodies POSTed to the webhook
    printed             \* the messages printed to standard output

vars == << pc, outcome, error, today, include_tax, webhook_set, dates,
           account_alias, costs, top5_costs, total_cost_usd, fx_error,
           exchange_rate, total_cost_jpy, forecast_cost_usd,
           forecast_cost_jpy, calls, logged, posts, printed >>

NoDate == <<>>
NoDates ==
    [ today |-> NoDate, yesterday |-> NoDate, start_of_next_month |-> NoDate,
      start_date |-> NoDate, is_first_day |-> FALSE ]

\* One external call: the API and, for the Cost Explorer, its parameters.
Call(api, start, end, group_by) ==
    [api |-> api, Start |-> start, End |-> end, GroupBy |-> group_by]

\* The request get_aws_cost_usage sends: TimePeriod from its arguments, and
\* GroupBy when asked.
CostUsageCallFromYesterday(dates_, group_by) ==
    Call("ce.get_cost_and_usage",
         IF group_by THEN dates_.start_date ELSE dates_.yesterday,
         dates_.today, group_by)
CostUsageCall(dates_, group_by) ==
    Call("ce.get_cost_and_usage", dates_.start_date, dates_.today, group_by)

\* What get_forecast_data returns on the first day of a month.
FirstDayForecastZero(total) == 0
FirstDayForecast(total) == total

\* The exceptions botocore raises for a failed AWS call.
AwsErrors == {"BotoCoreError", "ClientError"}

\* What the billing and forecast APIs answer in the pipeline runs.
SampleGroups ==
    << CostItem("AmazonEC2", 120000), CostItem("Tax", 300000),
       CostItem("AmazonS3", 45000), CostItem("AmazonRDS", 120000),
       CostItem("AWSLambda", 10), CostItem("AmazonVPC", 7000),
       CostItem("AmazonRoute53", 500) >>
TotalAmounts == {0, 542100}
ForecastAmounts == {0, 1200000}
AliasLists == {<<>>, <<"prod">>}

\* The state before main runs, for a given clock, event and environment.
Start(today_, include_tax_, webhook_set_) ==
    /\ pc = "get_dates"
    /\ outcome = "running"
    /\ error = "none"
    /\ today = today_
    /\ include_tax = include_tax_
    /\ webhook_set = webhook_set_
    /\ dates = NoDates
    /\ account_alias = ""
    /\ costs = <<>>
    /\ top5_costs = <<>>
    /\ total_cost_usd = 0
    /\ fx_error = "none"
    /\ exchange_rate = 0
    /\ total_cost_jpy = 0
    /\ forecast_cost_usd = 0
    /\ forecast_cost_jpy = 0
    /\ calls = <<>>
    /\ logged = {}
    /\ posts = <<>>
    /\ printed = <<>>

Init ==
    \E t \in RunDates, tax \in BOOLEAN, hook \in BOOLEAN : Start(t, tax, hook)

\* "except Exception as error" of main: every exception class of the model
\* derives from Exception, so main logs it and returns None.
MainOutcomeNoTry(exc) == "propagated"
MainOutcome(exc) == "aborted"

\* An exception raised by a step of main leaves main: the logger.error calls
\* on its way (fn_logs) and main's own have run, and no later step runs.
Raise(exc, fn_logs) ==
    /\ pc' = "done"
    /\ error' = exc
    /\ outcome' = MainOutcome(exc)
    /\ logged' = logged \cup fn_logs
                 \cup (IF MainOutcome(exc) = "aborted" THEN {"main"} ELSE {})

\* ------------------------------------------------------------ main: steps
\* dates = get_dates()
GetDates ==
    /\ pc = "get_dates"
    /\ dates' = GetDatesResult(today)
    /\ pc' = "get_caller_identity"
    /\ UNCHANGED << outcome, error, today, include_tax, webhook_set,
                    account_alias, costs, top5_costs, total_cost_usd,
                    fx_error, exchange_rate, total_cost_jpy,
                    forecast_cost_usd, forecast_cost_jpy, calls, logged,
                    posts, printed >>

\* get_account_info: sts.get_caller_identity()
GetCallerIdentityOk ==
    /\ pc = "get_caller_identity"
    /\ calls' = Append(calls, Call("sts.get_caller_identity", NoDate, NoDate, FALSE))
    /\ pc' = "list_account_aliases"
    /\ UNCHANGED << outcome, error, today, include_tax, webhook_set, dates,
                    account_alias, costs, top5_costs, total_cost_usd,
                    fx_error, exchange_rate, total_cost_jpy,
                    forecast_cost_usd, forecast_cost_jpy, logged, posts,
                    printed >>

GetCallerIdentityFail ==
    /\ pc = "get_caller_identity"
    /\ calls' = Append(calls, Call("sts.get_caller_identity", NoDate, NoDate, FALSE))
    /\ \E exc \in AwsErrors : Raise(exc, {})
    /\ UNCHANGED << today, include_tax, webhook_set, dates, account_alias,
                    costs, top5_costs, total_cost_usd, fx_error,
                    exchange_rate, total_cost_jpy, forecast_cost_usd,
                    forecast_cost_jpy, posts, printed >>

\* get_account_info: iam.list_account_aliases(), "N/A" without an alias
ListAccountAliasesOk ==
    /\ pc = "list_account_aliases"
    /\ calls' = Append(calls, Call("iam.list_account_aliases", NoDate, NoDate, FALSE))
    /\ \E aliases \in AliasLists :
          account_alias' = IF aliases # <<>> THEN aliases[1] ELSE "N/A"
    /\ pc' = "cost_grouped"
    /\ UNCHANGED << outcome, error, today, include_tax, webhook_set, dates,
                    costs, top5_costs, total_cost_usd, fx_error,
                    exchange_rate, total_cost_jpy, forecast_cost_usd,
                    forecast_cost_jpy, logged, posts, printed >>

ListAccountAliasesFail ==
    /\ pc = "list_account_aliases"
    /\ calls' = Append(calls, Call("iam.list_account_aliases", NoDate, NoDate, FALSE))
    /\ \E exc \in AwsErrors : Raise(exc, {})
    /\ UNCHANGED << today, include_tax, webhook_set, dates, account_alias,
                    costs, top5_costs, total_cost_usd, fx_error,
                    exchange_rate, total_cost_jpy, forecast_cost_usd,
                    forecast_cost_jpy, posts, printed >>

\* get_cost_data: get_aws_cost_usage(start_date, today, group_by=True)
CostGroupedOk ==
    /\ pc = "cost_grouped"
    /\ calls' = Append(calls, CostUsageCall(dates, TRUE))
    /\ costs' = SampleGroups
    /\ pc' = "cost_total"
    /\ UNCHANGED << outcome, error, today, include_tax, webhook_set, dates,
                    account_alias, top5_costs, total_cost_usd, fx_error,
                    exchange_rate, total_cost_jpy, forecast_cost_usd,
                    forecast_cost_jpy, logged, posts, printed >>

CostGroupedFail ==
    /\ pc = "cost_grouped"
    /\ calls' = Append(calls, CostUsageCall(dates, TRUE))
    /\ \E exc \in AwsErrors : Raise(exc, {"get_aws_cost_usage", "get_cost_data"})
    /\ UNCHANGED << today, include_tax, webhook_set, dates, account_alias,
                    costs, top5_costs, total_cost_usd, fx_error,
                    exchange_rate, total_cost_jpy, forecast_cost_usd,
                    forecast_cost_jpy, posts, printed >>

\* get_cost_data: get_aws_cost_usage(start_date, today), then the ranking
\* and the total; the responses are locals and die with the return.
CostTotalOk ==
    /\ pc = "cost_total"
    /\ calls' = Append(calls, CostUsageCall(dates, FALSE))
    /\ top5_costs' = Top5Costs(costs, include_tax)
    /\ \E amount \in TotalAmounts : total_cost_usd' = amount
    /\ costs' = <<>>
    /\ pc' = "get_exchange_rate"
    /\ UNCHANGED << outcome, error, today, include_tax, webhook_set, dates,
                    account_alias, fx_error, exchange_rate, total_cost_jpy,
                    forecast_cost_usd, forecast_cost_jpy, logged, posts,
                    printed >>

CostTotalFail ==
    /\ pc = "cost_total"
    /\ calls' = Append(calls, CostUsageCall(dates, FALSE))
    /\ \E exc \in AwsErrors : Raise(exc, {"get_aws_cost_usage", "get_cost_data"})
    /\ costs' = <<>>
    /\ UNCHANGED << today, include_tax, webhook_set, dates, account_alias,
                    top5_costs, total_cost_usd, fx_error, exchange_rate,
                    total_cost_jpy, forecast_cost_usd, forecast_cost_jpy,
                    posts, printed >>

\* exchange_rate = get_exchange_rate(), returning;
\* total_cost_jpy = convert_usd_to_jpy(exchange_rate, total_cost_usd)
ExchangeRateReturn ==
    /\ pc = "get_exchange_rate"
    /\ calls' = Append(calls, Call("requests.get", NoDate, NoDate, FALSE))
    /\ \E r \in FxResponses :
          /\ GetExchangeRate(r).raises = "no"
          /\ fx_error' = FxTry(r).raises
          /\ exchange_rate' = GetExchangeRate(r).rate
          /\ total_cost_jpy' = ConvertUsdToJpy(GetExchangeRate(r).rate, total_cost_usd)
          /\ logged' = logged \cup GetExchangeRate(r).logged
    /\ pc' = "get_forecast_data"
    /\ UNCHANGED << outcome, error, today, include_tax, webhook_set, dates,
                    account_alias, costs, top5_costs, total_cost_usd,
                    forecast_cost_usd, forecast_cost_jpy, posts, printed >>

\* get_exchange_rate() letting an exception out of its except clause
ExchangeRateRaise ==
    /\ pc = "get_exchange_rate"
    /\ calls' = Append(calls, Call("requests.get", NoDate, NoDate, FALSE))
    /\ \E r \in FxResponses :
          /\ GetExchangeRate(r).raises # "no"
          /\ fx_error' = FxTry(r).raises
          /\ Raise(GetExchangeRate(r).raises, GetExchangeRate(r).logged)
    /\ UNCHANGED << today, include_tax, webhook_set, dates, account_alias,
                    costs, top5_costs, total_cost_usd, exchange_rate,
                    total_cost_jpy, forecast_cost_usd, forecast_cost_jpy,
                    posts, printed >>

\* get_forecast_data on the first day of a month: the total, and no call;
\* forecast_cost_jpy = convert_usd_to_jpy(exchange_rate, forecast_cost_usd)
ForecastFirstDay ==
    /\ pc = "get_forecast_data"
    /\ dates.is_first_day
    /\ forecast_cost_usd' = FirstDayForecast(total_cost_usd)
    /\ forecast_cost_jpy' =
          ConvertUsdToJpy(exchange_rate, FirstDayForecast(total_cost_usd))
    /\ pc' = "send_message"
    /\ UNCHANGED << outcome, error, today, include_tax, webhook_set, dates,
                    account_alias, costs, top5_costs, total_cost_usd,
                    fx_error, exchange_rate, total_cost_jpy, calls, logged,
                    posts, printed >>

\* get_forecast_data otherwise: get_aws_cost_forecast(today, start_of_next_month)
ForecastOk ==
    /\ pc = "get_forecast_data"
    /\ ~dates.is_first_day
    /\ calls' = Append(calls, Call("ce.get_cost_forecast",
                                   dates.today, dates.start_of_next_month, FALSE))
    /\ \E amount \in ForecastAmounts :
          /\ forecast_cost_usd' = amount
          /\ forecast_cost_jpy' = ConvertUsdToJpy(exchange_rate, amount)
    /\ pc' = "send_message"
    /\ UNCHANGED << outcome, error, today, include_tax, webhook_set, dates,
                    account_alias, costs, top5_costs, total_cost_usd,
                    fx_error, exchange_rate, total_cost_jpy, logged, posts,
                    printed >>

ForecastFail ==
    /\ pc = "get_forecast_data"
    /\ ~dates.is_first_day
    /\ calls' = Append(calls, Call("ce.get_cost_forecast",
                                   dates.today, dates.start_of_next_month, FALSE))
    /\ \E exc \in AwsErrors :
          Raise(exc, {"get_aws_cost_forecast", "get_forecast_data"})
    /\ UNCHANGED << today, include_tax, webhook_set, dates, account_alias,
                    costs, top5_costs, total_cost_usd, fx_error,
                    exchange_rate, total_cost_jpy, forecast_cost_usd,
                    forecast_cost_jpy, posts, printed >>

\* format_cost_message: the fields the template renders.
FormatCostMessage ==
    [ account_alias |-> account_alias,
      display_start_date |-> dates.start_date,
      display_end_date |-> dates.yesterday,
      total_cost_usd |-> total_cost_usd, total_cost_jpy |-> total_cost_jpy,
      forecast_cost_usd |-> forecast_cost_usd,
      forecast_cost_jpy |-> forecast_cost_jpy,
      exchange_rate |-> exchange_rate, top5_costs |-> top5_costs ]

\* send_message_to_slack with the webhook set: one requests.post, whose
\* RequestException is logged; then "Script completed successfully".
SendPostOk ==
    /\ pc = "send_message"
    /\ webhook_set
    /\ calls' = Append(calls, Call("requests.post", NoDate, NoDate, FALSE))
    /\ posts' = Append(posts, [text |-> FormatCostMessage])
    /\ pc' = "done"
    /\ outcome' = "completed"
    /\ UNCHANGED << error, today, include_tax, webhook_set, dates,
                    account_alias, costs, top5_costs, total_cost_usd,
                    fx_error, exchange_rate, total_cost_jpy,
                    forecast_cost_usd, forecast_cost_jpy, logged, printed >>

SendPostFailRaises ==
    /\ pc = "send_message"
    /\ webhook_set
    /\ calls' = Append(calls, Call("requests.post", NoDate, NoDate, FALSE))
    /\ posts' = Append(posts, [text |-> FormatCostMessage])
    /\ Raise("RequestException", {})
    /\ UNCHANGED << today, include_tax, webhook_set, dates, account_alias,
                    costs, top5_costs, total_cost_usd, fx_error,
                    exchange_rate, total_cost_jpy, forecast_cost_usd,
                    forecast_cost_jpy, printed >>
SendPostFail ==
    /\ pc = "send_message"
    /\ webhook_set
    /\ calls' = Append(calls, Call("requests.post", NoDate, NoDate, FALSE))
    /\ posts' = Append(posts, [text |-> FormatCostMessage])
    /\ logged' = logged \cup {"send_message_to_slack"}
    /\ pc' = "done"
    /\ outcome' = "completed"
    /\ UNCHANGED << error, today, include_tax, webhook_set, dates,
                    account_alias, costs, top5_costs, total_cost_usd,
                    fx_error, exchange_rate, total_cost_jpy,
                    forecast_cost_usd, forecast_cost_jpy, printed >>

\* send_message_to_slack without the webhook: print(message)
SendPrint ==
    /\ pc = "send_message"
    /\ ~webhook_set
    /\ printed' = Append(printed, FormatCostMessage)
    /\ pc' = "done"
    /\ outcome' = "completed"
    /\ UNCHANGED << error, today, include_tax, webhook_set, dates,
                    account_alias, costs, top5_costs, total_cost_usd,
                    fx_error, exchange_rate, total_cost_jpy,
                    forecast_cost_usd, forecast_cost_jpy, calls, logged,
                    posts >>

Next ==
    \/ GetDates
    \/ GetCallerIdentityOk
    \/ GetCallerIdentityFail
    \/ ListAccountAliasesOk
    \/ ListAccountAliasesFail
    \/ CostGroupedOk
    \/ CostGroupedFail
    \/ CostTotalOk
    \/ CostTotalFail
    \/ ExchangeRateReturn
    \/ ExchangeRateRaise
    \/ ForecastFirstDay
    \/ ForecastOk
    \/ ForecastFail
    \/ SendPostOk
    \/ SendPostFail
    \/ SendPrint

Spec == Init /\ [][Next]_vars

\* ------------------------------------------- get_dates on its own
\* get_dates is run once for every date of WideDates.
InitDates == \E t \in WideDates : Start(t, FALSE, FALSE)

SpecDates == InitDates /\ [][GetDates]_vars

\* ------------------------------------------- the ranking on its own
\* The Groups of a grouped response: n distinct services, one of which may
\* be "Tax" (tax_pos = 0: none), each with an amount.
GroupList(n, tax_pos, amounts) ==
    [ i \in 1..n |->
        CostItem(IF i = tax_pos THEN "Tax" ELSE ServiceNames[i], amounts[i]) ]

InitRank ==
    \E n \in 0..MaxGroups :
      \E tax_pos \in 0..n, amounts \in [1..n -> 0..MaxAmount], tax \in BOOLEAN :
        /\ pc = "rank"
        /\ costs = GroupList(n, tax_pos, amounts)
        /\ include_tax = tax
        /\ outcome = "running" /\ error = "none"
        /\ today = [year |-> 2024, month |-> 1, day |-> 2]
        /\ webhook_set = FALSE /\ dates = NoDates /\ account_alias = ""
        /\ top5_costs = <<>> /\ total_cost_usd = 0 /\ fx_error = "none"
        /\ exchange_rate = 0 /\ total_cost_jpy = 0
        /\ forecast_cost_usd = 0 /\ forecast_cost_jpy = 0
        /\ calls = <<>> /\ logged = {} /\ posts = <<>> /\ printed = <<>>

\* The filter, the sort and the slice of get_cost_data applied to costs.
Rank ==
    /\ pc = "rank"
    /\ top5_costs' = Top5Costs(costs, include_tax)
    /\ pc' = "ranked"
    /\ UNCHANGED << outcome, error, today, include_tax, webhook_set, dates,
                    account_alias, costs, total_cost_usd, fx_error,
                    exchange_rate, total_cost_jpy, forecast_cost_usd,
                    forecast_cost_jpy, calls, logged, posts, printed >>

SpecRank == InitRank /\ [][Rank]_vars

\* ------------------------------------------- the conversion on its own
\* Rates in tenths of a yen, amounts in thousandths of a dollar: the small
\* ones of either sign, and those of the documented examples.
ConvRates == {0, 1, 7, 1450, 1500, 1503}
ConvAmounts == (-MaxConvAmount..MaxConvAmount) \cup {10004, 542100, 1200000, -542100}

InitConvert ==
    \E rate \in ConvRates, amount \in ConvAmounts :
        /\ pc = "convert"
        /\ exchange_rate = rate
        /\ total_cost_usd = amount
        /\ outcome = "running" /\ error = "none"
        /\ today = [year |-> 2024, month |-> 1, day |-> 2]
        /\ include_tax = FALSE /\ webhook_set = FALSE /\ dates = NoDates
        /\ account_alias = "" /\ costs = <<>> /\ top5_costs = <<>>
        /\ fx_error = "none" /\ total_cost_jpy = 0
        /\ forecast_cost_usd = 0 /\ forecast_cost_jpy = 0
        /\ calls = <<>> /\ logged = {} /\ posts = <<>> /\ printed = <<>>

\* total_cost_jpy = convert_usd_to_jpy(exchange_rate, total_cost_usd)
Convert ==
    /\ pc = "convert"
    /\ total_cost_jpy' = ConvertUsdToJpy(exchange_rate, total_cost_usd)
    /\ pc' = "converted"
    /\ UNCHANGED << outcome, error, today, include_tax, webhook_set, dates,
                    account_alias, costs, top5_costs, total_cost_usd,
                    fx_error, exchange_rate, forecast_cost_usd,
                    forecast_cost_jpy, calls, logged, posts, printed >>

SpecConvert == InitConvert /\ [][Convert]_vars

\* =================================================================== claims
\* Reading a "%Y-%m-%d" string back as a date.
Strptime(str) ==
    [ year  |-> str[1] * 1000 + str[2] * 100 + str[3] * 10 + str[4],
      month |-> str[6] * 10 + str[7],
      day   |-> str[9] * 10 + str[10] ]

\* The proleptic Gregorian day number of a date (date.toordinal).
DaysBeforeMonth == << 0, 31, 59, 90, 120, 151, 181, 212, 243, 273, 304, 334 >>
ToOrdinal(d) ==
    LET y == d.year - 1
        leap == IF d.year % 400 = 0 THEN TRUE
                ELSE IF d.year % 100 = 0 THEN FALSE
                ELSE d.year % 4 = 0
    IN  365 * y + (y \div 4) - (y \div 100) + (y \div 400)
        + DaysBeforeMonth[d.month] + (IF leap /\ d.month > 2 THEN 1 ELSE 0)
        + d.day

FirstOfPriorMonth(d) ==
    IF d.month = 1 THEN [year |-> d.year - 1, month |-> 12, day |-> 1]
    ELSE [year |-> d.year, month |-> d.month - 1, day |-> 1]
FirstOfNextMonth(d) ==
    IF d.month = 12 THEN [year |-> d.year + 1, month |-> 1, day |-> 1]
    ELSE [year |-> d.year, month |-> d.month + 1, day |-> 1]

DatesComputed == pc # "get_dates"
ForecastCalls == { i \in 1..Len(calls) : calls[i].api = "ce.get_cost_forecast" }
CostCalls == { i \in 1..Len(calls) : calls[i].api = "ce.get_cost_and_usage" }
\* get_forecast_data has returned a forecast.
ForecastReturned == pc = "send_message" \/ outcome = "completed"

\* C1: for every date today, get_dates gives a window start strictly before
\* today (today is the clock's date and yesterday the day before it), so the
\* billing query [start_date, today) is neither empty nor inverted.
C1_WindowStartBeforeToday ==
    DatesComputed =>
        /\ Strptime(dates.today) = today
        /\ ToOrdinal(Strptime(dates.start_date)) < ToOrdinal(Strptime(dates.today))

\* C1 witness: get_dates has run on a 1 January, and the window starts on
\* 1 December of the year before.
C1_Witness ==
    /\ DatesComputed
    /\ today.month = 1 /\ today.day = 1
    /\ Strptime(dates.start_date) =
          [year |-> today.year - 1, month |-> 12, day |-> 1]

\* C10: the billing window lies inside one calendar month: start_date and
\* the displayed end date (yesterday, the day before today) have the same
\* year and month and start_date <= yesterday; this holds of the window of
\* every cost query and of the dates of every delivered message.
C10_WindowInOneMonth ==
    /\ DatesComputed =>
         LET st == Strptime(dates.start_date)
             yd == Strptime(dates.yesterday)
         IN  /\ ToOrdinal(yd) = ToOrdinal(today) - 1
             /\ st.year = yd.year /\ st.month = yd.month
             /\ ToOrdinal(st) <= ToOrdinal(yd)
    /\ \A i \in CostCalls :
         /\ calls[i].Start = dates.start_date
         /\ ToOrdinal(Strptime(calls[i].End)) = ToOrdinal(Strptime(dates.yesterday)) + 1
    /\ \A i \in 1..Len(posts) :
         /\ posts[i].text.display_start_date = dates.start_date
         /\ posts[i].text.display_end_date = dates.yesterday
    /\ \A i \in 1..Len(printed) :
         /\ printed[i].display_start_date = dates.start_date
         /\ printed[i].display_end_date = dates.yesterday

\* C10 witness: a report for 1 March of a leap year was delivered, covering
\* 1 February to 29 February.
C10_Witness ==
    /\ outcome = "completed"
    /\ Len(posts) = 1
    /\ today = [year |-> 2024, month |-> 3, day |-> 1]
    /\ Strptime(posts[1].text.display_start_date) = [year |-> 2024, month |-> 2, day |-> 1]
    /\ Strptime(posts[1].text.display_end_date) = [year |-> 2024, month |-> 2, day |-> 29]

\* C2: on the 1st of a month the window starts on the 1st of the prior
\* month (1 December of the previous year for 1 January), the forecast
\* get_forecast_data returns is the total already computed, and the run
\* makes no forecast API call.
C2_FirstDay ==
    (DatesComputed /\ today.day = 1) =>
        /\ dates.is_first_day
        /\ Strptime(dates.start_date) = FirstOfPriorMonth(today)
        /\ ForecastCalls = {}
        /\ ForecastReturned =>
              /\ forecast_cost_usd = total_cost_usd
              /\ forecast_cost_jpy = total_cost_jpy

\* C2 witness: a run on 1 January completed with a non-zero total as its
\* forecast.
C2_Witness ==
    /\ outcome = "completed"
    /\ today.month = 1 /\ today.day = 1
    /\ total_cost_usd = 542100
    /\ forecast_cost_usd = 542100

\* C3: on any other day the window starts on the 1st of the current month;
\* the forecast is fetched at most once, and exactly once when
\* get_forecast_data is reached, for [today, start of next month), where the
\* start of next month is the day after the month's last day and lies
\* strictly after today.
C3_OtherDays ==
    (DatesComputed /\ today.day # 1) =>
        /\ ~dates.is_first_day
        /\ Strptime(dates.start_date) =
              [year |-> today.year, month |-> today.month, day |-> 1]
        /\ Strptime(dates.start_of_next_month) = FirstOfNextMonth(today)
        /\ ToOrdinal(today) < ToOrdinal(Strptime(dates.start_of_next_month))
        /\ Cardinality(ForecastCalls) <= 1
        /\ \A i \in ForecastCalls :
              /\ Strptime(calls[i].Start) = today
              /\ Strptime(calls[i].End) = FirstOfNextMonth(today)
        /\ (ForecastReturned \/ "get_forecast_data" \in logged) =>
              Cardinality(ForecastCalls) = 1

\* C3 witness: a run on 31 December completed after one forecast call for
\* [31 December, 1 January of the next year).
C3_Witness ==
    /\ outcome = "completed"
    /\ today.month = 12 /\ today.day = 31
    /\ \E i \in ForecastCalls :
          Strptime(calls[i].End) = [year |-> today.year + 1, month |-> 1, day |-> 1]

\* The positions of costs that may be ranked: all, or all but "Tax".
Eligible ==
    { i \in 1..Len(costs) : include_tax \/ costs[i].Keys[1] # "Tax" }
\* Position i of costs comes before position j in the ranking.
RanksBefore(i, j) ==
    \/ costs[i].Amount > costs[j].Amount
    \/ costs[i].Amount = costs[j].Amount /\ i < j
\* The position in costs of the item holding place k of the result.
Origin(k) == CHOOSE i \in 1..Len(costs) : costs[i] = top5_costs[k]

\* C4: the ranking returns at most 5 items (5, or all eligible ones when
\* fewer), each an eligible item of the response, in non-increasing order of
\* amount with equal amounts in API order, and every eligible item left out
\* ranks behind every item kept; without include_tax "Tax" is never
\* returned and takes no slot, with include_tax it is ranked like the rest.
C4_Top5 ==
    pc = "ranked" =>
        /\ Len(top5_costs) =
              (IF Cardinality(Eligible) < 5 THEN Cardinality(Eligible) ELSE 5)
        /\ \A k \in 1..Len(top5_costs) :
              /\ \E i \in Eligible : costs[i] = top5_costs[k]
              /\ ~include_tax => top5_costs[k].Keys[1] # "Tax"
        /\ \A k \in 1..(Len(top5_costs) - 1) :
              RanksBefore(Origin(k), Origin(k + 1))
        /\ \A i \in Eligible :
              (\A k \in 1..Len(top5_costs) : Origin(k) # i) =>
                  \A k \in 1..Len(top5_costs) : RanksBefore(Origin(k), i)

\* C4 witness: seven groups, "Tax" strictly the largest and excluded, five
\* of the six others returned.
C4_Witness ==
    /\ pc = "ranked"
    /\ ~include_tax
    /\ Len(costs) = 7
    /\ Len(top5_costs) = 5
    /\ \E t \in 1..7 :
          /\ costs[t].Keys[1] = "Tax"
          /\ \A i \in (1..7) \ {t} : costs[i].Amount < costs[t].Amount

\* C5: get_exchange_rate never raises and never fails the pipeline: whenever
\* its request fails or the payload is malformed, the default rate 150.0 is
\* returned and the run goes on to the forecast and notification steps.
C5_ExchangeRateNeverFails ==
    fx_error \notin {"none", "no"} =>
        /\ exchange_rate = DEFAULT_EXCHANGE_RATE
        /\ error = "none"
        /\ outcome # "aborted"

\* C6: when the identity, alias, billing or forecast call fails, the run is
\* over: the failed call is the last one, no step can follow, nothing was
\* posted or printed, main has logged the error and returned normally.
C6_AwsFailureAborts ==
    error \in AwsErrors =>
        /\ outcome = "aborted"
        /\ "main" \in logged
        /\ posts = <<>> /\ printed = <<>>
        /\ calls # <<>>
        /\ calls[Len(calls)].api \in
              { "sts.get_caller_identity", "iam.list_account_aliases",
                "ce.get_cost_and_usage", "ce.get_cost_forecast" }
        /\ \A i \in 1..Len(calls) : calls[i].api # "requests.post"
        /\ ~ENABLED Next

\* C6 witness: the forecast call failed after the exchange rate was fetched.
C6_Witness ==
    /\ error \in AwsErrors
    /\ outcome = "aborted"
    /\ calls[Len(calls)].api = "ce.get_cost_forecast"
    /\ "get_forecast_data" \in logged
    /\ exchange_rate # 0

\* C7: a run whose fetches all succeed makes exactly one delivery attempt:
\* with the webhook set one POST of a JSON body with the single field text
\* and nothing printed, otherwise one print and no POST; a failed POST is
\* logged, not repeated, and the run still completes.
C7_OneDelivery ==
    /\ Len(posts) + Len(printed) <= 1
    /\ pc = "send_message" => (posts = <<>> /\ printed = <<>> /\ ENABLED Next)
    /\ (posts # <<>> \/ printed # <<>>) => outcome = "completed"
    /\ outcome = "completed" =>
          /\ webhook_set =>
                /\ Len(posts) = 1 /\ printed = <<>>
                /\ DOMAIN posts[1] = {"text"}
                /\ posts[1].text = FormatCostMessage
                /\ Cardinality({ i \in 1..Len(calls) : calls[i].api = "requests.post" }) = 1
          /\ ~webhook_set =>
                /\ posts = <<>> /\ Len(printed) = 1
                /\ printed[1] = FormatCostMessage
                /\ \A i \in 1..Len(calls) : calls[i].api # "requests.post"
    /\ "send_message_to_slack" \in logged =>
          (webhook_set /\ Len(posts) = 1 /\ outcome = "completed")

\* C7 witness: the POST failed, was logged, and the run completed.
C7_Witness ==
    /\ "send_message_to_slack" \in logged
    /\ outcome = "completed"
    /\ Len(posts) = 1

\* rate * amount in ten-thousandths of a yen.
ConvProduct == exchange_rate * total_cost_usd

\* C8 as claimed: convert_usd_to_jpy returns floor(rate * amount) for
\* positive, zero and negative amounts.
C8_ConvertIsFloor ==
    pc = "converted" =>
        /\ total_cost_jpy * 10000 <= ConvProduct
        /\ ConvProduct < (total_cost_jpy + 1) * 10000

\* C8 amended: convert_usd_to_jpy returns rate * amount with the fraction
\* dropped (rounded toward zero): floor(rate * amount) when the product is
\* not negative, its ceiling when it is negative.
C8_ConvertTruncates ==
    pc = "converted" =>
        /\ ConvProduct >= 0 =>
              /\ total_cost_jpy * 10000 <= ConvProduct
              /\ ConvProduct < (total_cost_jpy + 1) * 10000
        /\ ConvProduct < 0 =>
              /\ (total_cost_jpy - 1) * 10000 < ConvProduct
              /\ ConvProduct <= total_cost_jpy * 10000

\* C8 witness: rate 150.0 and amount 10.004 gave 1500.
C8_Witness ==
    /\ pc = "converted"
    /\ exchange_rate = 1500 /\ total_cost_usd = 10004
    /\ total_cost_jpy = 1500

\* The APIs of the calls issued, in order.
ApiSeq == [ i \in 1..Len(calls) |-> calls[i].api ]
\* s lists elements of order in the order they have there, some left out.
RECURSIVE InOrderFrom(_, _, _, _)
InOrderFrom(s, i, order, j) ==
    IF i > Len(s) THEN TRUE
    ELSE IF j > Len(order) THEN FALSE
    ELSE IF s[i] = order[j] THEN InOrderFrom(s, i + 1, order, j + 1)
    ELSE InOrderFrom(s, i, order, j + 1)
InOrder(s, order) == InOrderFrom(s, 1, order, 1)
\* The cost query is issued twice over one window once the cost step is
\* passed, and never more; the grouped query comes first.
CostQueriedTwice ==
    /\ Cardinality(CostCalls) <= 2
    /\ \A i, j \in CostCalls :
          /\ calls[i].Start = calls[j].Start /\ calls[i].End = calls[j].End
          /\ i < j => (calls[i].GroupBy /\ ~calls[j].GroupBy)
    /\ (\E i \in 1..Len(calls) :
           calls[i].api \in {"requests.get", "ce.get_cost_forecast", "requests.post"})
          => Cardinality(CostCalls) = 2
\* A call is issued only while no exception has reached main.
CallsOnlyWhileRunning ==
    outcome # "running" => (pc = "done" /\ ~ENABLED Next)

\* C9 as claimed: the calls come in the order identity, alias, grouped cost
\* query, total cost query, forecast, FX rate, notification.
C9_ClaimedCallOrder ==
    /\ InOrder(ApiSeq, << "sts.get_caller_identity", "iam.list_account_aliases",
                          "ce.get_cost_and_usage", "ce.get_cost_and_usage",
                          "ce.get_cost_forecast", "requests.get",
                          "requests.post" >>)
    /\ CostQueriedTwice
    /\ CallsOnlyWhileRunning

\* C9 amended: the calls come one after another in the order identity,
\* alias, grouped cost query, total cost query, FX rate, forecast,
\* notification, none after an exception has reached main; the cost query
\* is issued twice over the same window by every run that gets past the
\* cost step, and every other call at most once.
C9_CallOrder ==
    /\ InOrder(ApiSeq, << "sts.get_caller_identity", "iam.list_account_aliases",
                          "ce.get_cost_and_usage", "ce.get_cost_and_usage",
                          "requests.get", "ce.get_cost_forecast",
                          "requests.post" >>)
    /\ CostQueriedTwice
    /\ CallsOnlyWhileRunning

\* C9 witness: a completed run that issued all seven calls.
C9_Witness ==
    /\ outcome = "completed"
    /\ Len(calls) = 7
    /\ calls[5].api = "requests.get"
    /\ calls[6].api = "ce.get_cost_forecast"

====
